---- MODULE Spec2Model ----
(***************************************************************************)
(* A model of mortgage.py: the payment calculator monthly_payment and the  *)
(* schedule generator amortization_schedule.                               *)
(*                                                                         *)
(* Numbers.  The program computes in floating point; the model computes    *)
(* the same expressions in exact rational arithmetic.  A rational is a     *)
(* pair <<n, d>> in lowest terms with d > 0, so two rationals are equal    *)
(* exactly when the pairs are.  Results that the program reaches only up   *)
(* to rounding are reached exactly here.  The exponential of the discount  *)
(* factor is kept symbolic: a discount is the record [exp |-> x] standing   *)
(* for e^x.                                                                *)
(*                                                                         *)
(* Generators.  amortization_schedule is a generator function: calling it  *)
(* runs none of its body and returns a generator object (pc = "created");  *)
(* each next() runs the body up to the next yield ("suspended"), to a      *)
(* raise or to the end of the loop ("finished", with the exception that    *)
(* ended it: StopIteration for a normal end).                              *)
(***************************************************************************)
EXTENDS Integers, Sequences, FiniteSets, TLC

VARIABLES loan, call, run

vars == <<loan, call, run>>

\* ---------------------------------------------------------------- bounds

\* Principals tried: -MaxPrincipal .. MaxPrincipal.
MaxPrincipal == 2

\* Terms tried: -5, 0 and 1 .. MaxYears.
MaxYears == 1

\* Inflation rates tried, in percent: 0 .. MaxInflation.
MaxInflation == 1

\* The generator objects alive at once.
Runs == {1, 2}

\* Annual rates tried, in percent.  They are the rates whose monthly rate
\* r = rate/1200 is an integer (-2, -1, 0, 1), which keeps (1 + r)^months
\* and every balance within the model checker's integers.
Rates == {0 - 2400, 0 - 1200, 0, 1200}

Principals == (0 - MaxPrincipal) .. MaxPrincipal

Years == {0 - 5, 0} \cup (1 .. MaxYears)

Inflations == 0 .. MaxInflation

\* A negative principal at a positive rate leaves, after the first row, a
\* balance that doubles every month; past one year it is out of the range
\* of the model checker's integers, and those inputs are not tried.
InRange(principal, years, annual_rate) ==
    (principal < 0 /\ annual_rate > 0) => years <= 1

\* ------------------------------------------------------------- rationals

Abs(x) == IF x < 0 THEN 0 - x ELSE x

RECURSIVE Gcd(_, _)
Gcd(a, b) == IF b = 0 THEN a ELSE Gcd(b, a % b)

\* n/d in lowest terms, d # 0.
Rat(n, d) ==
    LET g == Gcd(Abs(n), Abs(d))
        s == IF d < 0 THEN 0 - 1 ELSE 1
    IN  <<(s * n) \div g, (s * d) \div g>>

ToRat(i) == <<i, 1>>

Zero == ToRat(0)

One == ToRat(1)

RatAdd(a, b) ==
    LET g == Gcd(a[2], b[2])
    IN  Rat(a[1] * (b[2] \div g) + b[1] * (a[2] \div g), (a[2] \div g) * b[2])

RatNeg(a) == <<0 - a[1], a[2]>>

RatSub(a, b) == RatAdd(a, RatNeg(b))

RatMul(a, b) ==
    LET g1 == Gcd(Abs(a[1]), b[2])
        g2 == Gcd(Abs(b[1]), a[2])
    IN  Rat((a[1] \div g1) * (b[1] \div g2), (a[2] \div g2) * (b[2] \div g1))

\* a / b, b # Zero.
RatDiv(a, b) == RatMul(a, Rat(b[2], b[1]))

RatLess(a, b) ==
    LET g == Gcd(a[2], b[2])
    IN  a[1] * (b[2] \div g) < b[1] * (a[2] \div g)

RatLeq(a, b) == ~RatLess(b, a)

\* x^n for an integer n >= 0, by repeated squaring.
RECURSIVE RatPow(_, _)
RatPow(x, n) ==
    IF n = 0
    THEN One
    ELSE LET h == RatPow(x, n \div 2)
         IN  IF n % 2 = 0 THEN RatMul(h, h) ELSE RatMul(x, RatMul(h, h))

\* |a| < 1/k for a positive integer k, without forming |n| * k.
SmallerThanOneOver(a, k) == Abs(a[1]) <= (a[2] - 1) \div k

\* ------------------------------------------------------ call outcomes

NoValue == Zero

Return(v) == [kind |-> "return", value |-> v, error |-> ""]

Raise(e) == [kind |-> "raise", value |-> NoValue, error |-> e]

\* Python's float division: a zero divisor raises.
Divide(a, b) ==
    IF b = Zero THEN Raise("ZeroDivisionError") ELSE Return(RatDiv(a, b))

\* -------------------------------------------------------- monthly_payment

InvalidTermStrict(years) == years < 0

InvalidTerm(years) == years <= 0

MonthsPerYear == 12

TermMonths(years) == years * MonthsPerYear

PerCent == 100

\* (annual_rate / 100.0) / 12.0
MonthlyRate(annual_rate) ==
    RatDiv(RatDiv(ToRat(annual_rate), ToRat(PerCent)), ToRat(MonthsPerYear))

ZeroRateNever(r) == FALSE

ZeroRate(r) == r = Zero

monthly_payment(principal, years, annual_rate) ==
    IF InvalidTerm(years)
    THEN Raise("ValueError")
    ELSE LET months == TermMonths(years)
             r == MonthlyRate(annual_rate)
         IN  IF ZeroRate(r)
             THEN Divide(ToRat(principal), ToRat(months))
             ELSE LET factor == RatPow(RatAdd(One, r), months)
                  IN  Divide(RatMul(ToRat(principal), RatMul(r, factor)),
                             RatSub(factor, One))

\* The rate argument is optional and defaults to 0.0.
RateArgument(args) == IF Len(args) >= 3 THEN args[3] ELSE 0

\* ---------------------------------------------------- amortization_schedule

ScheduleInvalidTermUnchecked(years) == FALSE

ScheduleInvalidTerm(years) == years <= 0

Interest(balance, r) == IF r = Zero THEN Zero ELSE RatMul(balance, r)

PrincipalComponent(pmt, interest) == RatSub(pmt, interest)

Overshoots(principal_component, balance) == RatLess(balance, principal_component)

EffectivePaymentUnadjusted(clamped, pmt, interest, principal_component) == pmt

EffectivePayment(clamped, pmt, interest, principal_component) ==
    IF clamped THEN RatAdd(interest, principal_component) ELSE pmt

\* The snap threshold 1e-8, as 1 / SnapOneOver.
SnapOneOver == 100000000

NewBalanceAdded(balance, principal_component) ==
    LET b == RatAdd(balance, principal_component)
    IN  IF SmallerThanOneOver(b, SnapOneOver) THEN Zero ELSE b

\* balance -= principal_component, then the snap of a residue below 1e-8.
NewBalance(balance, principal_component) ==
    LET b == RatSub(balance, principal_component)
    IN  IF SmallerThanOneOver(b, SnapOneOver) THEN Zero ELSE b

\* The discount e^x as [exp |-> x]; 1.0 is e^0.
Discount(ia, m) ==
    IF ia = Zero
    THEN [exp |-> Zero]
    ELSE [exp |-> RatMul(RatNeg(ia), RatDiv(ToRat(m), ToRat(MonthsPerYear)))]

\* amount * discount, the product kept symbolic.
Discounted(amount, discount) == [amount |-> amount, exp |-> discount.exp]

\* One pass of the loop body for month m: the frame after it, the row
\* appended to what the run has yielded.
LoopBody(f, m) ==
    LET interest == Interest(f.balance, f.r)
        formulaic == PrincipalComponent(f.pmt, interest)
        clamped == Overshoots(formulaic, f.balance)
        principal_component == IF clamped THEN f.balance ELSE formulaic
        pmt_effective ==
            EffectivePayment(clamped, f.pmt, interest, principal_component)
        balance == NewBalance(f.balance, principal_component)
        discount == Discount(f.ia, m)
        row == [month |-> m,
                payment |-> pmt_effective,
                interest |-> interest,
                principal |-> principal_component,
                balance |-> balance,
                discount |-> discount,
                payment_real |-> Discounted(pmt_effective, discount),
                interest_real |-> Discounted(interest, discount),
                principal_real |-> Discounted(principal_component, discount)]
    IN  [f EXCEPT !.pc = "suspended", !.m = m, !.balance = balance,
                  !.rows = Append(f.rows, row)]

\* The generator object a call returns: no line of the body has run.  The
\* locals are unbound until assigned; they show as 0 here and are not read
\* before their assignment.
NewFrame(principal, years, annual_rate, inflation_rate) ==
    [principal |-> principal, years |-> years, annual_rate |-> annual_rate,
     inflation_rate |-> inflation_rate,
     pc |-> "created", months |-> 0, r |-> Zero, ia |-> Zero, pmt |-> Zero,
     balance |-> Zero, m |-> 0, rows |-> <<>>, error |-> "", calls |-> 0]

\* No generator object.
NoFrame == [NewFrame(0, 0, 0, 0) EXCEPT !.pc = "none"]

\* next() on a generator that has not started: the body up to the first
\* yield or raise.
Start(f) ==
    IF ScheduleInvalidTerm(f.years)
    THEN [f EXCEPT !.pc = "finished", !.error = "ValueError"]
    ELSE LET p == monthly_payment(f.principal, f.years, f.annual_rate)
             g == [f EXCEPT !.months = TermMonths(f.years),
                            !.r = MonthlyRate(f.annual_rate),
                            !.ia = RatDiv(ToRat(f.inflation_rate), ToRat(PerCent)),
                            !.calls = f.calls + 1]
         IN  IF p.kind = "raise"
             THEN [g EXCEPT !.pc = "finished", !.error = p.error]
             ELSE LoopBody([g EXCEPT !.pmt = p.value,
                                     !.balance = ToRat(f.principal)], 1)

\* next() on a generator suspended at its yield: the next pass of the loop,
\* or the end of the range.
Continue(f) ==
    IF f.m < f.months
    THEN LoopBody(f, f.m + 1)
    ELSE [f EXCEPT !.pc = "finished", !.error = "StopIteration"]

Resume(f) == IF f.pc = "created" THEN Start(f) ELSE Continue(f)

\* ----------------------------------------------------------- the machine

\* The arguments of a call: principal, years, rate and inflation.
LoanInputs ==
    {in \in [principal : Principals, years : Years, annual_rate : Rates,
             inflation_rate : Inflations] :
        InRange(in.principal, in.years, in.annual_rate)}

\* The arguments tried when two generators run side by side: a negative and
\* a positive principal, a rate that raises, no interest and interest, every
\* term, discounting on.
TwoRunInputs ==
    {in \in LoanInputs :
        /\ in.principal \in {0 - 1, MaxPrincipal}
        /\ in.annual_rate \in {0 - 2400, 0, 1200}
        /\ in.inflation_rate = MaxInflation}

FrameShared(g) == run[1]

\* The frame of generator g: its arguments and its locals.
Frame(g) == run[g]

NoCall == [args |-> <<>>, result |-> Raise("")]

\* One caller, its arguments chosen once; generator 2 is not used.
Init ==
    /\ \E in \in LoanInputs : loan = [g \in Runs |-> in]
    /\ call = NoCall
    /\ run = [g \in Runs |-> NoFrame]

\* Two callers, each with its own arguments.
InitTwo ==
    /\ loan \in [Runs -> TwoRunInputs]
    /\ call = NoCall
    /\ run = [g \in Runs |-> NoFrame]

\* monthly_payment(principal, years, rate), or monthly_payment(principal, years)
\* with the rate left out.
CallMonthlyPayment ==
    /\ \E args \in {<<loan[1].principal, loan[1].years, loan[1].annual_rate>>}
                    \cup {<<loan[1].principal, loan[1].years>>} :
            call' = [args |-> args,
                     result |-> monthly_payment(args[1], args[2], RateArgument(args))]
    /\ UNCHANGED <<loan, run>>

\* amortization_schedule(principal, years, rate, inflation): a new generator
\* object; one held before under the same name is abandoned.
Invoke(g) ==
    /\ run' = [run EXCEPT ![g] = NewFrame(loan[g].principal, loan[g].years,
                                          loan[g].annual_rate,
                                          loan[g].inflation_rate)]
    /\ UNCHANGED <<loan, call>>

\* next(generator g)
Advance(g) ==
    /\ run[g].pc \in {"created", "suspended"}
    /\ run' = [run EXCEPT ![g] = Resume(Frame(g))]
    /\ UNCHANGED <<loan, call>>

Next ==
    \/ CallMonthlyPayment
    \/ Invoke(1)
    \/ Advance(1)

Spec == Init /\ [][Next]_vars

NextTwo == \E g \in Runs : Invoke(g) \/ Advance(g)

SpecTwo == InitTwo /\ [][NextTwo]_vars

\* ---------------------------------------------------------------- claims

\* A call of monthly_payment has been made.
Called == call.args # <<>>

\* The generators that exist.
Live == {g \in Runs : run[g].pc # "none"}

\* The balance before row k of generator g.
BalanceBefore(g, k) ==
    IF k = 1 THEN ToRat(run[g].principal) ELSE run[g].rows[k - 1].balance

RECURSIVE SumPrincipal(_)
SumPrincipal(rows) ==
    IF rows = <<>>
    THEN Zero
    ELSE RatAdd(SumPrincipal(SubSeq(rows, 1, Len(rows) - 1)),
                rows[Len(rows)].principal)

\* A generator with nothing else running, after k calls of next().
RECURSIVE AfterSteps(_, _)
AfterSteps(f, k) == IF k = 0 THEN f ELSE AfterSteps(Resume(f), k - 1)

RunAlone(in, k) ==
    AfterSteps(NewFrame(in.principal, in.years, in.annual_rate,
                        in.inflation_rate), k)

\* The calls of next() generator g has answered: one for each row, and one
\* more for the exception that ended it.
StepsTaken(g) ==
    Len(run[g].rows) + (IF run[g].pc = "finished" THEN 1 ELSE 0)

\* C1: monthly_payment raises ValueError (InvalidTerm) for every years <= 0,
\* whatever the principal and the rate, and returns no payment.
C1_InvalidTermRaises ==
    (Called /\ call.args[2] <= 0) => call.result = Raise("ValueError")

C1_Witness ==
    /\ Called
    /\ call.args[2] = 0
    /\ call.args[1] > 0
    /\ call.result.error = "ValueError"

\* C2: for every years > 0 and every principal and rate, monthly_payment
\* returns a payment and raises nothing.
C2_OnlyInvalidTermFails ==
    (Called /\ call.args[2] > 0) => call.result.kind = "return"

\* C3: the last row a run of amortization_schedule yields has balance
\* exactly 0, for all principal, years > 0 and rate.
C3_FinalBalanceZero ==
    \A g \in Live :
        (run[g].pc = "finished" /\ run[g].rows # <<>>)
            => run[g].rows[Len(run[g].rows)].balance = Zero

\* C4: for rate > 0 the principal fields of the rows of one full run sum to
\* the original principal, within 1e-6.
C4_PrincipalSumsToLoan ==
    \A g \in Live :
        (run[g].pc = "finished" /\ run[g].error = "StopIteration"
         /\ run[g].annual_rate > 0)
            => SmallerThanOneOver(
                   RatSub(SumPrincipal(run[g].rows), ToRat(run[g].principal)),
                   1000000)

\* C5: for years > 0 a run yields exactly years*12 rows and then ends, the
\* k-th row having month k, for every principal, rate and inflation rate.
C5_OneRowPerMonth ==
    \A g \in Live :
        run[g].years > 0 =>
            /\ \A k \in 1 .. Len(run[g].rows) : run[g].rows[k].month = k
            /\ Len(run[g].rows) <= run[g].years * 12
            /\ run[g].pc = "finished" => Len(run[g].rows) = run[g].years * 12

C7_ScheduleInvalidTerm ==
    \A g \in Live :
        run[g].years <= 0 =>
            /\ run[g].rows = <<>>
            /\ run[g].calls = 0
            /\ run[g].pc \in {"created", "finished"}
            /\ run[g].pc = "finished" => run[g].error = "ValueError"

C7_Witness ==
    /\ run[1].years = 0 - 5
    /\ run[1].pc = "finished"
    /\ run[1].error = "ValueError"
    /\ run[1].annual_rate # 0

\* C8: for principal P > 0 and years T > 0, monthly_payment(P, T, 0) and
\* monthly_payment(P, T) both return P / (T * 12).
C8_ZeroRateStraightLine ==
    (/\ Called
     /\ call.args[1] > 0
     /\ call.args[2] > 0
     /\ (Len(call.args) = 2 \/ call.args[3] = 0))
        => call.result = Return(Rat(call.args[1], call.args[2] * 12))

C8_Witness ==
    /\ Called
    /\ Len(call.args) = 2
    /\ call.args[1] = MaxPrincipal
    /\ call.args[2] = MaxYears
    /\ call.result.kind = "return"

C10_RunsIndependent ==
    \A g \in Live : run[g] = RunAlone(loan[g], StepsTaken(g))

C10_Witness ==
    /\ loan[1] # loan[2]
    /\ run[1].pc = "suspended"
    /\ run[2].pc = "suspended"
    /\ Len(run[1].rows) = 3
    /\ Len(run[2].rows) = 5
    /\ run[1].rows # SubSeq(run[2].rows, 1, 3)

====
